---- MODULE Spec2Model ----
(***************************************************************************)
(* NYUVP (src/nyu.py): a lazily filled, index addressed dataset.  For an   *)
(* ordinal key, __getitem__ looks up the cache slot, and on a miss reads   *)
(* the labelled_lines file and the vps file of that identifier, parses     *)
(* them, optionally takes the image and depth plane out of data_mat,       *)
(* normalises the VP rows, stores the record when keep_in_mem is set, and  *)
(* returns it.                                                             *)
(*                                                                         *)
(* Numeric magnitudes are not modelled: a parsed coordinate is the integer *)
(* its text denotes, a VP row carries a flag saying whether line 141 has   *)
(* divided it by its norm, and a VD row is the unit direction "of" its VP. *)
(***************************************************************************)
EXTENDS Integers, Sequences, FiniteSets, TLC

VARIABLES
    keep_in_mem,          \* self.keep_in_mem
    mat_loaded,           \* self.data_mat is not None
    optimize,             \* the interpreter runs with -O: assert statements are removed
    labelled_line_files,  \* self.labelled_line_files, each path standing for its file's rows
    vps_files,            \* self.vps_files, each path standing for its file's rows
    dataset,              \* self.dataset: slot -> None or a reference to a record
    heap,                 \* the record objects that are still referenced
    mat_written,          \* planes of data_mat["depths"] some caller has written into
    last,                 \* the most recent __getitem__ call and how it ended
    first,                \* slot -> the first record object ever returned for it
    queried,              \* identifiers whose image plane has been read from data_mat
    tick,                 \* flips on every call, so that no call is a stuttering step
    pc,                   \* thread -> position inside __getitem__
    loc                   \* thread -> the locals of its running __getitem__

vars == <<keep_in_mem, mat_loaded, optimize, labelled_line_files, vps_files,
          dataset, heap, mat_written, last, first, queried, tick, pc, loc>>

config == <<keep_in_mem, mat_loaded, optimize, labelled_line_files, vps_files>>

-----------------------------------------------------------------------------
(* Bounds of the model *)

\* the identifiers are 0 .. NumIds-1 (range(0, 1449) in the code)
NumIds == 2
\* data rows of a generated vps file
MaxRows == 2

(* Program constants *)

\* for i in range(1, 5)
NumSlots == 4

Slots == 0 .. NumIds - 1
Keys == -(NumIds + 1) .. NumIds
Fields == {"VPs", "id", "VDs", "image", "labelled_lines", "depth"}

\* self.set_ids = list(range(0, 1449))
set_ids == [i \in Slots |-> i]

-----------------------------------------------------------------------------
(* Exceptions: the type and the source line that raises it *)

NoErr == [type |-> "none", line |-> 0]
Err(t, l) == [type |-> t, line |-> l]

(* list.__getitem__ with an int: negative indices count from the end *)
PyIndex(key, n) ==
    IF key >= 0 /\ key < n THEN [ok |-> TRUE, i |-> key]
    ELSE IF key < 0 /\ key + n >= 0 THEN [ok |-> TRUE, i |-> key + n]
    ELSE [ok |-> FALSE, i |-> 0]

-----------------------------------------------------------------------------
(* float(str) on the field texts that occur in the files of the model *)

Numerals == {"1", "2", "1.0"}
IsFloat(s) == s \in Numerals
float(s) == CASE s = "1" -> 1 [] s = "1.0" -> 1 [] s = "2" -> 2 [] OTHER -> 0

-----------------------------------------------------------------------------
(* The labelled_lines file, lines 79-104.  A file is the sequence of its   *)
(* data rows (csv.DictReader has taken the header); a row maps the slot    *)
(* number i to the four texts line{i}_x1 .. line{i}_y2.                    *)

Parsed(segs) == [err |-> NoErr, segs |-> segs]
Failed(t, l) == [err |-> Err(t, l), segs |-> <<>>]

\* line 96-97: the literal "433q" in line{i}_y2 trips an assert
SentinelAssert(s) ==
    ~optimize /\ s.y2 = "433q"

\* lines 93-100: one slot whose x1 is not empty
SlotAcceptsAll(s) ==
    Parsed(<< <<float(s.x1), float(s.y1), float(s.x2), float(s.y2)>> >>)

Slot(s) ==
    IF ~IsFloat(s.x1) THEN Failed("ValueError", 93)
    ELSE IF ~IsFloat(s.y1) THEN Failed("ValueError", 94)
    ELSE IF ~IsFloat(s.x2) THEN Failed("ValueError", 95)
    ELSE IF SentinelAssert(s) THEN Failed("AssertionError", 97)
    ELSE IF ~IsFloat(s.y2) THEN Failed("ValueError", 98)
    ELSE Parsed(<< <<float(s.x1), float(s.y1), float(s.x2), float(s.y2)>> >>)

\* lines 84-102: the slots of one row, from slot i on, lines_per_vp so far
RECURSIVE ScanSlotsSkipEmpty(_, _, _)
ScanSlotsSkipEmpty(line, i, lines_per_vp) ==
    IF i > NumSlots THEN Parsed(lines_per_vp)
    ELSE IF line[i].x1 = "" THEN ScanSlotsSkipEmpty(line, i + 1, lines_per_vp)
    ELSE LET s == Slot(line[i]) IN
         IF s.err # NoErr THEN s
         ELSE ScanSlotsSkipEmpty(line, i + 1, lines_per_vp \o s.segs)

RECURSIVE ScanSlots(_, _, _)
ScanSlots(line, i, lines_per_vp) ==
    IF i > NumSlots THEN Parsed(lines_per_vp)
    ELSE IF line[i].x1 = "" THEN Parsed(lines_per_vp)
    ELSE LET s == Slot(line[i]) IN
         IF s.err # NoErr THEN s
         ELSE ScanSlots(line, i + 1, lines_per_vp \o s.segs)

\* line 103: np.vstack of an empty list raises ValueError
vstack(list, l) ==
    IF list = <<>> THEN Failed("ValueError", l) ELSE Parsed(list)

\* lines 83-103: one row
RowGroup(line) ==
    LET r == ScanSlots(line, 1, <<>>) IN
    IF r.err # NoErr THEN r ELSE vstack(r.segs, 103)

\* lines 82-104: the rows from row n on
RECURSIVE ParseLabelledLines(_, _, _)
ParseLabelledLines(file, n, labelled_line_segments) ==
    IF n > Len(file) THEN Parsed(labelled_line_segments)
    ELSE LET g == RowGroup(file[n]) IN
         IF g.err # NoErr THEN g
         ELSE ParseLabelledLines(file, n + 1, Append(labelled_line_segments, g.segs))

-----------------------------------------------------------------------------
(* The vps file, lines 106-124.  A file is the sequence of its rows, the   *)
(* header first; a row is the sequence of its columns.                     *)

VpOut(vps, vds) == [err |-> NoErr, vps |-> vps, vds |-> vds]
VpFail(t, l) == [err |-> Err(t, l), vps |-> <<>>, vds |-> <<>>]

\* lines 113-117: the homogeneous point, not yet divided by its norm
MakeVp(x, y) == [x |-> x, y |-> y, w |-> 1, unit |-> FALSE]
\* lines 120-121: Kinv @ vp, divided by its norm
MakeVd(vp) == [of |-> <<vp.x, vp.y>>, unit |-> TRUE]

\* lines 110-122: the rows from row ri on (ri counts from 0 as enumerate does)
RECURSIVE VpRows(_, _, _, _)
VpRows(file, ri, vp_list, vd_list) ==
    IF ri >= Len(file) THEN VpOut(vp_list, vd_list)
    ELSE IF ri = 0 THEN VpRows(file, ri + 1, vp_list, vd_list)
    ELSE LET row == file[ri + 1] IN
         IF Len(row) < 2 THEN VpFail("IndexError", 114)
         ELSE IF ~IsFloat(row[2]) THEN VpFail("ValueError", 114)
         ELSE IF Len(row) < 3 THEN VpFail("IndexError", 115)
         ELSE IF ~IsFloat(row[3]) THEN VpFail("ValueError", 115)
         ELSE LET vp == MakeVp(float(row[2]), float(row[3])) IN
              VpRows(file, ri + 1, Append(vp_list, vp), Append(vd_list, MakeVd(vp)))

\* lines 106-124: np.vstack of an empty vp_list raises ValueError
ParseVps(file) ==
    LET r == VpRows(file, 0, <<>>, <<>>) IN
    IF r.err # NoErr THEN r
    ELSE IF r.vps = <<>> THEN VpFail("ValueError", 123)
    ELSE r

-----------------------------------------------------------------------------
(* Planes of data_mat and record objects *)

\* Python's None where a plane is expected
NoPlane == [plane |-> "none", id |-> 0, view |-> FALSE]
\* lines 74-75: data_mat["images"][:, :, :, id].astype(np.float32) is a copy
ImagePlane(id) == [plane |-> "images", id |-> id, view |-> FALSE]
\* lines 128-129: np.expand_dims(data_mat["depths"][..., id], axis=2) is a view
\* into the array data_mat holds
DepthPlane(id) == [plane |-> "depths", id |-> id, view |-> TRUE]

\* Python's None where a record is expected, and the references to records:
\* the gen-th object assembled for a slot among those still referenced
NoRef == [slot |-> -1, gen |-> 0]
Ref(idx, g) == [slot |-> idx, gen |-> g]

\* a new dict is distinct from every object that is still referenced
NewRef(idx, live) ==
    Ref(idx, CHOOSE g \in 0 .. Cardinality(live) :
                 /\ Ref(idx, g) \notin live
                 /\ \A h \in 0 .. g - 1 : Ref(idx, h) \in live)

\* lines 72-77: the image plane, and the reads of data_mat it takes
ReadImage(id) ==
    IF mat_loaded
    THEN [plane |-> ImagePlane(id), reads |-> << [plane |-> "images", id |-> id] >>]
    ELSE [plane |-> NoPlane, reads |-> <<>>]

\* lines 126-129: the depth plane, and the reads of data_mat it takes
ReadDepth(id) ==
    IF mat_loaded
    THEN [plane |-> DepthPlane(id), reads |-> << [plane |-> "depths", id |-> id] >>]
    ELSE [plane |-> NoPlane, reads |-> <<>>]

\* line 80: self.labelled_line_files[id], then lines 81-104
LoadLines(id) ==
    IF id >= Len(labelled_line_files) THEN Failed("IndexError", 80)
    ELSE ParseLabelledLines(labelled_line_files[id + 1], 1, <<>>)

\* line 108: self.vps_files[id], then lines 109-124
LoadVps(id) ==
    IF id >= Len(vps_files) THEN VpFail("IndexError", 108)
    ELSE ParseVps(vps_files[id + 1])

\* lines 131-138
MakeDatum(id, vp, image_rgb, labelled_line_segments, depth) ==
    [VPs |-> vp.vps, id |-> id, VDs |-> vp.vds, image |-> image_rgb,
     labelled_lines |-> labelled_line_segments, depth |-> depth]

\* line 141, for one vi
NormaliseRowSkip(datum, vi) == datum

NormaliseRow(datum, vi) ==
    [datum EXCEPT !.VPs[vi].unit = TRUE]

\* lines 140-141
Normalise(datum) ==
    [datum EXCEPT !.VPs = [vi \in DOMAIN datum.VPs |-> [datum.VPs[vi] EXCEPT !.unit = TRUE]]]

\* a record no step of the assembly is missing from
FullyAssembled(rec) ==
    /\ DOMAIN rec = Fields
    /\ Len(rec.VPs) >= 1
    /\ \A vi \in DOMAIN rec.VPs : rec.VPs[vi].unit
    /\ \A vi \in DOMAIN rec.VDs : rec.VDs[vi].unit

AsmFail(err, reads) == [err |-> err, datum |-> << >>, reads |-> reads]
AsmOk(datum, reads) == [err |-> NoErr, datum |-> datum, reads |-> reads]

\* an assembly that reads the depth plane before it parses the files
BuildDepthFirst(id, img, ll, vp) ==
    IF ll.err # NoErr THEN AsmFail(ll.err, img.reads \o ReadDepth(id).reads)
    ELSE IF vp.err # NoErr THEN AsmFail(vp.err, img.reads \o ReadDepth(id).reads)
    ELSE AsmOk(Normalise(MakeDatum(id, vp, img.plane, ll.segs, ReadDepth(id).plane)),
               img.reads \o ReadDepth(id).reads)

Shorter(a, b) == IF a < b THEN a ELSE b

\* an assembly that cuts the groups to the number of vanishing points
BuildTruncating(id, img, ll, vp) ==
    IF ll.err # NoErr THEN AsmFail(ll.err, img.reads)
    ELSE IF vp.err # NoErr THEN AsmFail(vp.err, img.reads)
    ELSE AsmOk(Normalise(MakeDatum(id, vp, img.plane,
                                   SubSeq(ll.segs, 1, Shorter(Len(ll.segs), Len(vp.vps))),
                                   ReadDepth(id).plane)),
               img.reads \o ReadDepth(id).reads)

\* lines 131-141 once the two files are parsed, or the exception of the
\* parser that failed; the image plane is read before the files are
Build(id, img, ll, vp) ==
    IF ll.err # NoErr THEN AsmFail(ll.err, img.reads)
    ELSE IF vp.err # NoErr THEN AsmFail(vp.err, img.reads)
    ELSE AsmOk(Normalise(MakeDatum(id, vp, img.plane, ll.segs, ReadDepth(id).plane)),
               img.reads \o ReadDepth(id).reads)

\* lines 73-141: the record of identifier id, or the exception that ends the
\* assembly, with the reads of data_mat made on the way
Assemble(id) ==
    Build(id, ReadImage(id), LoadLines(id), LoadVps(id))

\* a cache that keeps nothing
StoreNever(ds, idx, ref) == ds

\* lines 143-144
Store(ds, idx, ref) ==
    IF keep_in_mem THEN [ds EXCEPT ![idx] = ref] ELSE ds

-----------------------------------------------------------------------------
(* __getitem__, lines 62-146, as one call *)

Threads == {1, 2}
Idle == [t \in Threads |-> "idle"]
NoLocals == [key |-> 0, idx |-> 0, id |-> 0, datum |-> NoRef, vi |-> 0,
             err |-> NoErr, image |-> NoPlane, segs |-> <<>>,
             vp |-> VpOut(<<>>, <<>>)]

\* every object something still refers to
Referenced(ds, fst, ret, lc) ==
    ({ds[i] : i \in Slots} \cup {fst[i] : i \in Slots} \cup {ret}
        \cup {lc[t].datum : t \in Threads}) \ {NoRef}

\* how a call ends: the exception or the record, whether the assembly was
\* started, the reads of data_mat, and the cache and the heap it leaves
Raises(err, started, reads, ds, hp) ==
    [err |-> err, ret |-> NoRef, started |-> started, reads |-> reads, ds |-> ds, hp |-> hp]
Returns(ref, started, reads, ds, hp) ==
    [err |-> NoErr, ret |-> ref, started |-> started, reads |-> reads, ds |-> ds, hp |-> hp]

\* the heap with a new object for record rec
Alloc(ref, rec) ==
    [o \in DOMAIN heap \cup {ref} |-> IF o = ref THEN [rec |-> rec, written |-> {}] ELSE heap[o]]

\* lines 131-146 storing before the assembly is known to have succeeded
FinishStoresEarly(idx, ref, a) ==
    IF a.err # NoErr
    THEN Raises(a.err, TRUE, a.reads, Store(dataset, idx, ref),
                Alloc(ref, MakeDatum(idx, VpOut(<<>>, <<>>), NoPlane, <<>>, NoPlane)))
    ELSE Returns(ref, TRUE, a.reads, Store(dataset, idx, ref), Alloc(ref, a.datum))

\* lines 131-146 for the assembly a: the exception goes to the caller, a
\* record is stored when keep_in_mem is set and returned
Finish(idx, ref, a) ==
    IF a.err # NoErr
    THEN Raises(a.err, TRUE, a.reads, dataset, heap)
    ELSE Returns(ref, TRUE, a.reads, Store(dataset, idx, ref), Alloc(ref, a.datum))

\* lines 72-146 when datum is None
Miss(idx, id) ==
    Finish(idx, NewRef(idx, DOMAIN heap), Assemble(id))

\* lines 70-146 for an index in range
Found(idx, datum) ==
    IF datum # NoRef
    THEN Returns(datum, FALSE, <<>>, dataset, heap)
    ELSE Miss(idx, set_ids[idx])

\* lines 68-146
Lookup(ix) ==
    IF ~ix.ok THEN Raises(Err("IndexError", 68), FALSE, <<>>, dataset, heap)
    ELSE Found(ix.i, dataset[ix.i])

Outcome(key) == Lookup(PyIndex(key, NumIds))

\* the fields of record o that no longer show what the assembly put there
ChangedIn(hp, written_planes, o) ==
    hp[o].written \cup
        (IF hp[o].rec.depth.view /\ hp[o].rec.depth.id \in written_planes
         THEN {"depth"} ELSE {})

NoCall ==
    [called |-> FALSE, key |-> 0, err |-> NoErr, ret |-> NoRef, started |-> FALSE,
     reads |-> <<>>, wrote |-> {}, filled |-> {}, requeried |-> FALSE,
     first_before |-> NoRef, changed |-> {}, strayed |-> FALSE]

\* what the call did, for the properties to refer to
Observed(key, ix, out) ==
    [called |-> TRUE, key |-> key, err |-> out.err, ret |-> out.ret,
     started |-> out.started, reads |-> out.reads,
     wrote |-> {i \in Slots : out.ds[i] # dataset[i]},
     filled |-> {i \in Slots : dataset[i] = NoRef /\ out.ds[i] # NoRef},
     requeried |-> \E n \in DOMAIN out.reads : out.reads[n].id \in queried,
     first_before |-> IF ix.ok THEN first[ix.i] ELSE NoRef,
     changed |-> IF out.ret = NoRef THEN {} ELSE ChangedIn(out.hp, mat_written, out.ret),
     strayed |-> last.strayed \/ key \notin Slots]

FirstAfter(ret) ==
    IF ret # NoRef /\ first[ret.slot] = NoRef THEN [first EXCEPT ![ret.slot] = ret] ELSE first

Commit(key, out) ==
    /\ dataset' = out.ds
    /\ first' = FirstAfter(out.ret)
    /\ last' = Observed(key, PyIndex(key, NumIds), out)
    /\ heap' = [o \in Referenced(out.ds, FirstAfter(out.ret), out.ret, loc) |-> out.hp[o]]
    /\ queried' = queried \cup
           {out.reads[n].id : n \in {m \in DOMAIN out.reads : out.reads[m].plane = "images"}}
    /\ tick' = 1 - tick

getitem(key) ==
    /\ pc = Idle
    /\ Commit(key, Outcome(key))
    /\ UNCHANGED <<config, mat_written, pc, loc>>

-----------------------------------------------------------------------------
(* The files of the model *)

Seg(a, b, c, d) == [x1 |-> a, y1 |-> b, x2 |-> c, y2 |-> d]
Blank == Seg("", "", "", "")
SegA == Seg("1", "2", "1", "2")
SegB == Seg("2", "1", "1.0", "1")
Fld == {"x1", "y1", "x2", "y2"}
Spoilt(f, text) == [SegA EXCEPT ![f] = text]

\* slots that parse or end the scan, and slots one field of which is not a number
PlainSlots == {Blank, Seg("", "1", "1", "1"), SegA, SegB}
SpoiltSlots == {Spoilt(f, text) : f \in Fld \ {"x1"}, text \in {"x", "433q", ""}}
                   \cup {Spoilt("x1", text) : text \in {"x", "433q"}}
\* rows with at most one spoilt slot
GenRows ==
    {r \in [1 .. NumSlots -> PlainSlots \cup SpoiltSlots] :
        Cardinality({i \in 1 .. NumSlots : r[i] \in SpoiltSlots}) <= 1}

Header == <<"id", "x", "y">>
VpRow(x, y) == <<"0", x, y>>
GenVpRows == {VpRow(x, y) : x, y \in {"1", "2", "x"}} \cup {<<"0">>, <<"0", "1">>}
\* a vps file: nothing at all, or the header and up to MaxRows rows
GenVpsFiles ==
    {<< >>} \cup UNION {{<<Header>> \o rows : rows \in [1 .. n -> GenVpRows]} : n \in 0 .. MaxRows}

LinesOne == << <<SegA, Blank, Blank, Blank>> >>
LinesTwo == << <<SegA, SegB, Blank, SegA>>, <<SegB, SegA, SegB, SegA>> >>
LinesNoSegment == << <<SegA, Blank, Blank, Blank>>, <<Blank, SegA, Blank, Blank>> >>
LinesSentinel == << <<SegA, Spoilt("y2", "433q"), Blank, Blank>> >>
VpsOne == <<Header, VpRow("1", "2")>>
VpsTwo == <<Header, VpRow("1", "2"), VpRow("2", "1.0")>>
VpsSpoilt == <<Header, VpRow("1", "2"), VpRow("x", "1")>>

\* the two files of one identifier
Pairs ==
    {<<LinesOne, VpsOne>>, <<LinesTwo, VpsTwo>>, <<LinesOne, VpsTwo>>, <<LinesTwo, VpsOne>>,
     <<LinesNoSegment, VpsOne>>, <<LinesSentinel, VpsOne>>, <<LinesTwo, VpsSpoilt>>}

-----------------------------------------------------------------------------
(* The state after __init__, lines 32-57 *)

Constructed ==
    /\ keep_in_mem \in BOOLEAN
    /\ mat_loaded \in BOOLEAN
    /\ optimize \in BOOLEAN
    /\ dataset = [i \in Slots |-> NoRef]
    /\ heap = << >>
    /\ mat_written = {}
    /\ last = NoCall
    /\ first = [i \in Slots |-> NoRef]
    /\ queried = {}
    /\ tick = 0
    /\ pc = Idle
    /\ loc = [t \in Threads |-> NoLocals]

\* a data directory with the pair <<LinesOne, VpsOne>> for every identifier but
\* at most one, which has any pair; the last file of a family may be missing
Directories ==
    {dir \in [1 .. NumIds -> Pairs] :
        Cardinality({n \in 1 .. NumIds : dir[n] # <<LinesOne, VpsOne>>}) <= 1}

Init ==
    /\ Constructed
    /\ \E dir \in Directories, nl, nv \in {NumIds - 1, NumIds} :
          /\ labelled_line_files = [n \in 1 .. nl |-> dir[n][1]]
          /\ vps_files = [n \in 1 .. nv |-> dir[n][2]]

\* a data directory with the files of identifier 0 alone: any generated
\* labelled_lines row, or any generated vps file
InitParse ==
    /\ Constructed
    /\ ~mat_loaded
    /\ keep_in_mem
    /\ \/ /\ \E r \in GenRows : labelled_line_files = << <<r>> >>
          /\ vps_files = <<VpsOne>>
       \/ /\ labelled_line_files = <<LinesOne>>
          /\ \E f \in GenVpsFiles : vps_files = <<f>>

\* every identifier has the pair <<LinesOne, VpsOne>>
InitCaller ==
    /\ Constructed
    /\ ~optimize
    /\ labelled_line_files = [n \in 1 .. NumIds |-> LinesOne]
    /\ vps_files = [n \in 1 .. NumIds |-> VpsOne]

\* identifier 0 has any pair, the others <<LinesOne, VpsOne>>
InitThreads ==
    /\ Constructed
    /\ ~optimize
    /\ \E pair \in Pairs :
          /\ labelled_line_files = [n \in 1 .. NumIds |-> IF n = 1 THEN pair[1] ELSE LinesOne]
          /\ vps_files = [n \in 1 .. NumIds |-> IF n = 1 THEN pair[2] ELSE VpsOne]

-----------------------------------------------------------------------------
(* A caller changing a record it was given (the plotting script does so at *)
(* lines 252-253): it rebinds a key of the dict, or writes into the array  *)
(* a key is bound to.  A write into a view lands in the array viewed.      *)

\* the writes the model lets callers make in one behaviour
MaxWrites == 1

Arrays == Fields \ {"id"}

Writes == Cardinality(mat_written) + Cardinality({of \in (DOMAIN heap) \X Fields : of[2] \in heap[of[1]].written})

CallerWrite(o, f, inplace) ==
    /\ pc = Idle
    /\ o = last.ret
    /\ Writes < MaxWrites
    /\ f \notin heap[o].written
    /\ inplace => f \in Arrays /\ (f \in {"image", "depth"} => heap[o].rec[f] # NoPlane)
    /\ IF inplace /\ f = "depth" /\ heap[o].rec.depth.view
       THEN /\ heap[o].rec.depth.id \notin mat_written
            /\ mat_written' = mat_written \cup {heap[o].rec.depth.id}
            /\ UNCHANGED heap
       ELSE /\ heap' = [heap EXCEPT ![o].written = @ \cup {f}]
            /\ UNCHANGED mat_written
    /\ UNCHANGED <<config, dataset, last, first, queried, tick, pc, loc>>

-----------------------------------------------------------------------------
(* __getitem__ run by threads: one step per statement that reads or writes *)
(* self.dataset, and one per stage of the assembly in between              *)

Goto(t, p) == pc' = [pc EXCEPT ![t] = p]
Set(t, l) == loc' = [loc EXCEPT ![t] = l]
Raise(t, err) ==
    /\ Goto(t, "raised")
    /\ Set(t, [loc[t] EXCEPT !.err = err])

\* the call
Enter(t, key) ==
    /\ pc[t] = "idle"
    /\ Goto(t, "L68")
    /\ Set(t, [NoLocals EXCEPT !.key = key])
    /\ UNCHANGED <<dataset, heap>>

Indexed(t, ix) ==
    IF ~ix.ok THEN Raise(t, Err("IndexError", 68))
    ELSE /\ Goto(t, "L70")
         /\ Set(t, [loc[t] EXCEPT !.idx = ix.i, !.id = set_ids[ix.i]])

\* line 68: id = self.set_ids[key]
L68(t) ==
    /\ pc[t] = "L68"
    /\ Indexed(t, PyIndex(loc[t].key, NumIds))
    /\ UNCHANGED <<dataset, heap>>

\* line 70: datum = self.dataset[key]
L70(t) ==
    /\ pc[t] = "L70"
    /\ Goto(t, "L72")
    /\ Set(t, [loc[t] EXCEPT !.datum = dataset[loc[t].idx]])
    /\ UNCHANGED <<dataset, heap>>

\* lines 72-77: if datum is None, and the image plane
L72(t) ==
    /\ pc[t] = "L72"
    /\ IF loc[t].datum # NoRef
       THEN Goto(t, "L146") /\ UNCHANGED loc
       ELSE Goto(t, "L79") /\ Set(t, [loc[t] EXCEPT !.image = ReadImage(loc[t].id).plane])
    /\ UNCHANGED <<dataset, heap>>

Lines(t, ll) ==
    IF ll.err # NoErr THEN Raise(t, ll.err)
    ELSE Goto(t, "L106") /\ Set(t, [loc[t] EXCEPT !.segs = ll.segs])

\* lines 79-104
L79(t) ==
    /\ pc[t] = "L79"
    /\ Lines(t, LoadLines(loc[t].id))
    /\ UNCHANGED <<dataset, heap>>

Points(t, vp) ==
    IF vp.err # NoErr THEN Raise(t, vp.err)
    ELSE Goto(t, "L126") /\ Set(t, [loc[t] EXCEPT !.vp = vp])

\* lines 106-124
L106(t) ==
    /\ pc[t] = "L106"
    /\ Points(t, LoadVps(loc[t].id))
    /\ UNCHANGED <<dataset, heap>>

Created(t, ref) ==
    /\ heap' = Alloc(ref, MakeDatum(loc[t].id, loc[t].vp, loc[t].image, loc[t].segs,
                                    ReadDepth(loc[t].id).plane))
    /\ Set(t, [loc[t] EXCEPT !.datum = ref, !.vi = 0, !.image = NoPlane,
                             !.segs = <<>>, !.vp = VpOut(<<>>, <<>>)])

\* lines 126-138: the depth plane, and the dict
L126(t) ==
    /\ pc[t] = "L126"
    /\ Created(t, NewRef(loc[t].idx, DOMAIN heap))
    /\ Goto(t, "L140")
    /\ UNCHANGED dataset

\* lines 140-141: one turn of the loop
L140(t) ==
    /\ pc[t] = "L140"
    /\ IF loc[t].vi < Len(heap[loc[t].datum].rec.VPs)
       THEN /\ heap' = [heap EXCEPT ![loc[t].datum].rec = NormaliseRow(@, loc[t].vi + 1)]
            /\ Set(t, [loc[t] EXCEPT !.vi = @ + 1])
            /\ UNCHANGED pc
       ELSE /\ Goto(t, "L143")
            /\ UNCHANGED <<heap, loc>>
    /\ UNCHANGED dataset

\* lines 143-144; a record nothing refers to any more is freed
L143(t) ==
    /\ pc[t] = "L143"
    /\ dataset' = Store(dataset, loc[t].idx, loc[t].datum)
    /\ heap' = [o \in Referenced(dataset', first, last.ret, loc) |-> heap[o]]
    /\ Goto(t, "L146")
    /\ UNCHANGED loc

\* line 146
L146(t) ==
    /\ pc[t] = "L146"
    /\ Goto(t, "returned")
    /\ UNCHANGED <<dataset, heap, loc>>

Rest == UNCHANGED <<config, mat_written, last, first, queried, tick>>

Call == \E t \in Threads, key \in Keys : Enter(t, key) /\ Rest
Line68 == \E t \in Threads : L68(t) /\ Rest
Line70 == \E t \in Threads : L70(t) /\ Rest
Line72 == \E t \in Threads : L72(t) /\ Rest
Line79 == \E t \in Threads : L79(t) /\ Rest
Line106 == \E t \in Threads : L106(t) /\ Rest
Line126 == \E t \in Threads : L126(t) /\ Rest
Line140 == \E t \in Threads : L140(t) /\ Rest
Line143 == \E t \in Threads : L143(t) /\ Rest
Line146 == \E t \in Threads : L146(t) /\ Rest

NextThreads ==
    Call \/ Line68 \/ Line70 \/ Line72 \/ Line79 \/ Line106
        \/ Line126 \/ Line140 \/ Line143 \/ Line146

Next == \E key \in Keys : getitem(key)

Spec == Init /\ [][Next]_vars

SpecParse == InitParse /\ [][Next]_vars

Write == \E o \in DOMAIN heap, f \in Fields, inplace \in BOOLEAN : CallerWrite(o, f, inplace)

NextCaller == Next \/ Write

SpecCaller == InitCaller /\ [][NextCaller]_vars

SpecThreads == InitThreads /\ [][NextThreads]_vars

-----------------------------------------------------------------------------
(* What the properties say about a call, a row and a file.  last.strayed   *)
(* says that some call so far had a key outside 0 .. NumIds-1; what is     *)
(* stated of valid ordinals is stated of the behaviours where none had.    *)

\* the slot and identifier an in-range key stands for
SlotOf(key) == IF key >= 0 THEN key ELSE key + NumIds
InRange(key) == key >= -NumIds /\ key < NumIds

\* the first slot of a row whose x1 is empty, NumSlots + 1 when there is none
FirstEmpty(row) ==
    CHOOSE i \in 1 .. NumSlots + 1 :
        /\ i = NumSlots + 1 \/ row[i].x1 = ""
        /\ \A j \in 1 .. i - 1 : row[j].x1 # ""

Numeric(s) == \A f \in Fld : s[f] \in Numerals
SegOf(s) == <<float(s.x1), float(s.y1), float(s.x2), float(s.y2)>>
ExpectedGroup(row) == [j \in 1 .. FirstEmpty(row) - 1 |-> SegOf(row[j])]

\* the scanned slots of a row are all numeric
RowClean(row) == \A j \in 1 .. FirstEmpty(row) - 1 : Numeric(row[j])
RowGood(row) == RowClean(row) /\ FirstEmpty(row) > 1
\* the first row of a labelled_lines file that is not good, 0 when all are
FirstBadRow(file) ==
    IF \A n \in DOMAIN file : RowGood(file[n]) THEN 0
    ELSE CHOOSE n \in DOMAIN file : ~RowGood(file[n]) /\ \A m \in 1 .. n - 1 : RowGood(file[m])
\* the first scanned slot of a row that is not numeric
FirstBadSlot(row) ==
    CHOOSE j \in 1 .. NumSlots : ~Numeric(row[j]) /\ \A h \in 1 .. j - 1 : Numeric(row[h])

\* the data rows of a vps file, and the first that does not give a VP
VpData(file) == {n \in DOMAIN file : n > 1}
VpRowGood(row) == Len(row) >= 3 /\ row[2] \in Numerals /\ row[3] \in Numerals
FirstBadVp(file) ==
    IF \A n \in VpData(file) : VpRowGood(file[n]) THEN 0
    ELSE CHOOSE n \in VpData(file) :
             ~VpRowGood(file[n]) /\ \A m \in VpData(file) : m < n => VpRowGood(file[m])
\* a row whose x or y is present and not a number, met before any missing column
NonNumericVp(row) ==
    \/ Len(row) >= 2 /\ row[2] \notin Numerals
    \/ Len(row) >= 3 /\ row[3] \notin Numerals

\* the last call started an assembly with both files of its identifier there
AssembledFrom(id) ==
    /\ last.called /\ last.started
    /\ InRange(last.key) /\ SlotOf(last.key) = id
    /\ id < Len(labelled_line_files) /\ id < Len(vps_files)

-----------------------------------------------------------------------------
(* C1: get(ordinal) raises a range error for every ordinal outside         *)
(* [0, NumIds): no record is returned, no file or provider is read and no  *)
(* cache slot changes.                                                     *)
C1_RangeErrorOutside ==
    (last.called /\ last.key \notin Slots) =>
        /\ last.err.type = "IndexError"
        /\ last.ret = NoRef
        /\ last.reads = <<>>
        /\ last.wrote = {}

(* C2: with caching enabled, get(k) for a valid ordinal k returns a record *)
(* whose id is k; once a record has been returned for k every later get(k) *)
(* returns that same object, without starting an assembly and without      *)
(* reading data_mat.                                                       *)
C2_CachedIdentity ==
    (keep_in_mem /\ last.called /\ last.key \in Slots /\ last.err = NoErr) =>
        /\ heap[last.ret].rec.id = last.key
        /\ dataset[last.key] = last.ret
        /\ first[last.key] = last.ret
        /\ last.first_before # NoRef =>
              /\ last.ret = last.first_before
              /\ ~last.started
              /\ last.reads = <<>>

C2_Witness ==
    /\ keep_in_mem /\ mat_loaded
    /\ last.called /\ last.key \in Slots /\ last.err = NoErr
    /\ last.first_before = last.ret
    /\ \E i \in Slots : i # last.key /\ dataset[i] # NoRef

(* C3: the only change get(k) makes to the cache is to move slot k from    *)
(* EMPTY to POPULATED: every slot is empty or holds a fully assembled      *)
(* record, no populated slot is emptied or given another record, and       *)
(* get(k) leaves every slot other than k unchanged.                        *)
C3_OnlySlotKFilled ==
    /\ \A i \in Slots : dataset[i] = NoRef \/ FullyAssembled(heap[dataset[i]].rec)
    /\ last.called => last.wrote = last.filled /\ last.wrote \subseteq {last.key}

(* C4: when the assembly for ordinal k fails, the exception reaches the    *)
(* caller, no record is returned, no slot changes and slot k stays EMPTY;  *)
(* the failure is not remembered: a call on an empty slot starts an        *)
(* assembly, and get(k) straight after a failed get(k) reads and fails as  *)
(* the first did.                                                          *)
C4_FailureLeavesNoTrace ==
    (last.called /\ last.err # NoErr) =>
        /\ last.ret = NoRef
        /\ last.wrote = {}
        /\ InRange(last.key) => dataset[SlotOf(last.key)] = NoRef

C4_FailureNotRemembered ==
    tick' # tick =>
        /\ (InRange(last'.key) /\ dataset[SlotOf(last'.key)] = NoRef) => last'.started
        /\ (last.called /\ last.started /\ last.err # NoErr /\ last'.key = last.key) =>
               /\ last'.started
               /\ last'.err = last.err
               /\ last'.reads = last.reads

(* C4: both parts, the state after a failed call and the call after it *)
C4_NoPartialSuccess == [][C4_FailureNotRemembered]_vars /\ []C4_FailureLeavesNoTrace

C4_Witness ==
    /\ last.called /\ last.err = Err("ValueError", 103)
    /\ last.reads # <<>>
    /\ \E i \in Slots : dataset[i] # NoRef

(* C5 as stated: every record has as many VD rows as VP rows as            *)
(* labelled-line groups, whatever the row counts of the two files.         *)
C5_EqualLengths ==
    \A o \in DOMAIN heap :
        ~last.strayed =>
        /\ Len(heap[o].rec.VDs) = Len(heap[o].rec.VPs)
        /\ Len(heap[o].rec.VPs) = Len(heap[o].rec.labelled_lines)

(* C5 amended: every record has as many VD rows as VP rows, one per data   *)
(* row of the vps file, and one labelled-line group per row of the         *)
(* labelled_lines file; the three numbers agree exactly when the two files *)
(* have the same number of data rows.                                      *)
C5_LengthsFollowFiles ==
    \A o \in DOMAIN heap :
        /\ Len(heap[o].rec.VDs) = Len(heap[o].rec.VPs)
        /\ Len(heap[o].rec.VPs) = Len(vps_files[heap[o].rec.id + 1]) - 1
        /\ Len(heap[o].rec.labelled_lines) = Len(labelled_line_files[heap[o].rec.id + 1])

C5_Witness ==
    /\ last.called /\ last.err = NoErr
    /\ Len(heap[last.ret].rec.VPs) = 2
    /\ Len(heap[last.ret].rec.labelled_lines) = 1

(* C6: with caching disabled every slot stays EMPTY and each get(k)        *)
(* assembles a new record: a second get(k) returns a record equal in value *)
(* to the first and a distinct object, in which no change a caller made to *)
(* an earlier record shows.                                                *)
C6_UncachedIndependent ==
    (~keep_in_mem /\ ~last.strayed) =>
        /\ \A i \in Slots : dataset[i] = NoRef
        /\ (last.called /\ last.err = NoErr) =>
              /\ last.started
              /\ last.changed = {}
              /\ last.first_before # NoRef =>
                    /\ last.ret # last.first_before
                    /\ heap[last.ret].rec = heap[last.first_before].rec

(* C7 as stated: data_mat is queried exactly once per identifier over any  *)
(* sequence of calls when it is loaded, never when it is not, and then     *)
(* image and depth of every record are None.                               *)
C7_QueriedOnce ==
    /\ ~mat_loaded =>
          /\ last.reads = <<>>
          /\ \A o \in DOMAIN heap : heap[o].rec.image = NoPlane /\ heap[o].rec.depth = NoPlane
    /\ (last.called /\ ~last.strayed) => ~last.requeried

(* C7 amended: data_mat is never queried when it is not loaded, and then   *)
(* image and depth of every record are None; when it is loaded it is       *)
(* queried by the assemblies alone, each reading its identifier's image    *)
(* plane once at its start and its depth plane once after both files have  *)
(* parsed, so an identifier is queried once per assembly of it; a call     *)
(* that finds its slot populated queries nothing.                          *)
C7_QueriedPerAssembly ==
    /\ ~mat_loaded =>
          /\ last.reads = <<>>
          /\ queried = {}
          /\ \A o \in DOMAIN heap : heap[o].rec.image = NoPlane /\ heap[o].rec.depth = NoPlane
    /\ (mat_loaded /\ last.called) =>
          last.reads =
              IF ~last.started THEN <<>>
              ELSE IF last.err # NoErr
                   THEN << [plane |-> "images", id |-> SlotOf(last.key)] >>
                   ELSE << [plane |-> "images", id |-> SlotOf(last.key)],
                           [plane |-> "depths", id |-> SlotOf(last.key)] >>
    /\ (keep_in_mem /\ last.called /\ last.first_before # NoRef) => ~last.started
    /\ mat_loaded =>
          \A o \in DOMAIN heap :
              /\ heap[o].rec.image.plane = "images" /\ heap[o].rec.image.id = heap[o].rec.id
              /\ heap[o].rec.depth.plane = "depths" /\ heap[o].rec.depth.id = heap[o].rec.id

C7_Witness ==
    /\ mat_loaded /\ last.called /\ last.requeried
    /\ last.err # NoErr
    /\ Len(last.reads) = 1

(* C8: the group of a row is the segments of its slots before the first    *)
(* slot whose x1 is empty, in slot order: 1 to 4 segments, none from a     *)
(* slot after the first empty one; a row whose first slot is empty fails   *)
(* the call at the stacking of its zero segments.                          *)
C8_GroupIsPrefix ==
    /\ \A o \in DOMAIN heap :
          /\ Len(heap[o].rec.labelled_lines) = Len(labelled_line_files[heap[o].rec.id + 1])
          /\ \A n \in DOMAIN heap[o].rec.labelled_lines :
                /\ heap[o].rec.labelled_lines[n] =
                       ExpectedGroup(labelled_line_files[heap[o].rec.id + 1][n])
                /\ Len(heap[o].rec.labelled_lines[n]) \in 1 .. NumSlots
    /\ \A id \in Slots :
          (/\ AssembledFrom(id)
           /\ \E n \in DOMAIN labelled_line_files[id + 1] :
                  FirstEmpty(labelled_line_files[id + 1][n]) = 1) =>
              /\ last.err # NoErr
              /\ last.ret = NoRef
              /\ FirstEmpty(labelled_line_files[id + 1][FirstBadRow(labelled_line_files[id + 1])]) = 1
                    => last.err = Err("ValueError", 103)

C8_Witness ==
    /\ last.called /\ last.err = NoErr /\ last.started
    /\ labelled_line_files[1][1][2].x1 = ""
    /\ labelled_line_files[1][1][3].x1 # ""
    /\ heap[last.ret].rec.id = 0
    /\ heap[last.ret].rec.labelled_lines = << << <<1, 2, 1, 2>> >> >>

(* C9 as stated: a non-numeric x or y of a vps row, or a field of a        *)
(* scanned labelled_lines slot that is not a number, fails the call with   *)
(* the parse failure of float(), whichever text the field holds and        *)
(* whichever of the four fields it is.                                     *)
C9_SameKind ==
    \A id \in Slots :
        (AssembledFrom(id) /\ ~last.strayed) =>
            /\ (/\ FirstBadRow(labelled_line_files[id + 1]) # 0
                /\ ~RowClean(labelled_line_files[id + 1][FirstBadRow(labelled_line_files[id + 1])]))
                  => last.err.type = "ValueError" /\ last.ret = NoRef
            /\ (/\ FirstBadRow(labelled_line_files[id + 1]) = 0
                /\ FirstBadVp(vps_files[id + 1]) # 0
                /\ NonNumericVp(vps_files[id + 1][FirstBadVp(vps_files[id + 1])]))
                  => last.err.type = "ValueError" /\ last.ret = NoRef

\* the failure of a scanned slot that is not numeric
SlotFailure(s) ==
    IF ~optimize /\ s.y2 = "433q" /\ {s.x1, s.y1, s.x2} \subseteq Numerals
    THEN "AssertionError" ELSE "ValueError"

(* C9 amended: such a field always fails the call and no record is         *)
(* produced; the failure is the ValueError of float(), except that the     *)
(* text "433q" in the y2 field of a slot whose x1, y1 and x2 are numbers   *)
(* fails with an AssertionError (line 97) when assertions are enabled.     *)
C9_ParseFailures ==
    \A id \in Slots :
        AssembledFrom(id) =>
            /\ (/\ FirstBadRow(labelled_line_files[id + 1]) # 0
                /\ ~RowClean(labelled_line_files[id + 1][FirstBadRow(labelled_line_files[id + 1])]))
                  => /\ last.ret = NoRef
                     /\ last.err.type =
                            SlotFailure(labelled_line_files[id + 1]
                                [FirstBadRow(labelled_line_files[id + 1])]
                                [FirstBadSlot(labelled_line_files[id + 1]
                                    [FirstBadRow(labelled_line_files[id + 1])])])
            /\ (/\ FirstBadRow(labelled_line_files[id + 1]) = 0
                /\ FirstBadVp(vps_files[id + 1]) # 0
                /\ NonNumericVp(vps_files[id + 1][FirstBadVp(vps_files[id + 1])]))
                  => last.err.type = "ValueError" /\ last.ret = NoRef

C9_Witness ==
    /\ last.called /\ last.started
    /\ last.err = Err("AssertionError", 97)
    /\ labelled_line_files[1][1][2].y2 = "433q"

(* C10: when two threads run get(k) for the same k with caching enabled,   *)
(* every record in a slot and every record a caller receives is fully      *)
(* assembled and equal to the record a sequential get(k) builds, and once  *)
(* both have returned slot k holds the record one of them built.           *)
C10_RacingCallers ==
    /\ \A i \in Slots :
          dataset[i] # NoRef =>
              /\ FullyAssembled(heap[dataset[i]].rec)
              /\ heap[dataset[i]].rec = Assemble(i).datum
    /\ \A t \in Threads :
          pc[t] = "returned" =>
              /\ FullyAssembled(heap[loc[t].datum].rec)
              /\ heap[loc[t].datum].rec = Assemble(loc[t].id).datum
    /\ (keep_in_mem /\ (\A t \in Threads : pc[t] = "returned") /\ loc[1].key = loc[2].key) =>
          dataset[loc[1].idx] \in {loc[1].datum, loc[2].datum}

C10_Witness ==
    /\ keep_in_mem /\ mat_loaded
    /\ \A t \in Threads : pc[t] = "returned"
    /\ loc[1].key = loc[2].key
    /\ loc[1].datum # loc[2].datum
    /\ dataset[loc[1].idx] = loc[1].datum
    /\ Len(heap[loc[2].datum].rec.VPs) = 2

====
